---- MODULE Spec2Model ----
(***************************************************************************)
(* Model of tensilelite/Tensile/Toolchain/Validators.py.                   *)
(*                                                                         *)
(* A Python str is a sequence of tokens.  A token stands for a fixed run   *)
(* of characters ("amdclang", "++", "/", ...).  The token alphabets below  *)
(* are uniquely decodable (no string has two tokenisations), so equality   *)
(* of token sequences is equality of the strings they spell.               *)
(*                                                                         *)
(* Four specifications, one per entry point of the module:                 *)
(*   SpecImport    module import (lines 31-54): the vendor directories     *)
(*   SpecClassify  the four supportedX predicates (lines 68-118)           *)
(*   SpecResolve   validateToolchain / _validateExecutable (lines 121-177) *)
(*   SpecVersion   getVersion (lines 180-193)                              *)
(***************************************************************************)
EXTENDS Integers, Sequences, FiniteSets, TLC

VARIABLES
    osName,             \* os.name: "posix" or "nt"
    pc,                 \* position of the running call
    result,             \* value returned by the call
    err,                \* exception that left the call
    rootExists,         \* the ROCm root directory exists (Windows)
    entries,            \* path.iterdir() of the ROCm root, in iteration order
    ROCM_BIN_PATH,      \* module global, line 31 / 53
    ROCM_LLVM_BIN_PATH, \* module global, line 32 / 54
    component,          \* argument of a supportedX predicate
    called,             \* the predicates that have been called
    supported,          \* their return values
    args,               \* *args of validateToolchain
    environPATH,        \* os.environ["PATH"]
    fs,                 \* the filesystem: path -> kind of entry
    searchPaths,        \* local of validateToolchain, line 171
    argIdx,             \* position of the generator `out` in args
    dirIdx,             \* position of the loop of line 149
    probes,             \* the paths handed to os.access so far
    out,                \* values the generator has produced
    executable,         \* getVersion argument
    versionFlag,        \* getVersion argument
    regex,              \* getVersion argument
    proc,               \* what the shell and the child process do
    output              \* local of getVersion, line 189

vars == <<osName, pc, result, err, rootExists, entries, ROCM_BIN_PATH,
          ROCM_LLVM_BIN_PATH, component, called, supported, args, environPATH,
          fs, searchPaths, argIdx, dirIdx, probes, out, executable,
          versionFlag, regex, proc, output>>

importVars   == <<rootExists, entries>>
classifyVars == <<component, called, supported>>
resolveVars  == <<args, environPATH, fs, searchPaths, argIdx, dirIdx, probes, out>>
versionVars  == <<executable, versionFlag, regex, proc, output>>

NoErr == [type |-> "None", msg |-> <<>>]
NoResult == [kind |-> "none", val |-> <<>>]

OsNames == {"posix", "nt"}

-----------------------------------------------------------------------------
(* Sequence helpers *)

Last(s) == s[Len(s)]

\* sep.join(strs)
RECURSIVE JoinStr(_, _)
JoinStr(sep, strs) ==
    IF strs = <<>> THEN <<>>
    ELSE IF Len(strs) = 1 THEN Head(strs)
    ELSE Head(strs) \o sep \o JoinStr(sep, Tail(strs))

\* s.split(sep) for a one-token separator: always at least one piece
RECURSIVE SplitStr(_, _, _)
SplitStr(sep, s, cur) ==
    IF s = <<>> THEN <<cur>>
    ELSE IF Head(s) = sep THEN <<cur>> \o SplitStr(sep, Tail(s), <<>>)
    ELSE SplitStr(sep, Tail(s), Append(cur, Head(s)))

\* all sequences over S of length at most n
SeqsUpTo(S, n) == UNION {[1..k -> S] : k \in 0..n}

-----------------------------------------------------------------------------
(* pathlib.Path, both flavours.  A Path is [drive, root, parts]; parts      *)
(* excludes the anchor.  UNC drives (\\server\share) are not modelled: no   *)
(* name of the model starts with two separators on "nt".                    *)

Seps(os) == IF os = "nt" THEN {"\\", "/"} ELSE {"/"}
SepOf(os) == IF os = "nt" THEN "\\" ELSE "/"
PathSep(os) == IF os = "nt" THEN ";" ELSE ":"
DriveTokens == {"C:"}

KeepSeg(cur) == IF cur = <<>> \/ cur = <<".">> THEN <<>> ELSE <<cur>>

\* the segments between separators, empty and "." segments dropped
RECURSIVE Segments(_, _, _)
Segments(os, s, cur) ==
    IF s = <<>> THEN KeepSeg(cur)
    ELSE IF Head(s) \in Seps(os) THEN KeepSeg(cur) \o Segments(os, Tail(s), <<>>)
    ELSE Segments(os, Tail(s), Append(cur, Head(s)))

RECURSIVE LeadingSeps(_, _)
LeadingSeps(os, s) ==
    IF s # <<>> /\ Head(s) \in Seps(os) THEN 1 + LeadingSeps(os, Tail(s)) ELSE 0

DriveOf(os, s) ==
    IF os = "nt" /\ s # <<>> /\ Head(s) \in DriveTokens THEN <<Head(s)>> ELSE <<>>

RootOf(os, rest) ==
    LET n == LeadingSeps(os, rest) IN
    IF n = 0 THEN <<>>
    ELSE IF os = "nt" THEN <<"\\">>
    ELSE IF n = 2 THEN <<"/", "/">> ELSE <<"/">>

\* Path(s)
PathOf(os, s) ==
    LET drive == DriveOf(os, s)
        rest  == SubSeq(s, Len(drive) + 1, Len(s))
    IN [drive |-> drive, root |-> RootOf(os, rest), parts |-> Segments(os, rest, <<>>)]

\* Path.name: the final component, '' when there is none
PathName(p) == IF p.parts = <<>> THEN <<>> ELSE Last(p.parts)

\* str(path)
PathStr(os, p) ==
    IF p.drive = <<>> /\ p.root = <<>> /\ p.parts = <<>> THEN <<".">>
    ELSE p.drive \o p.root \o JoinStr(<<SepOf(os)>>, p.parts)

\* p / q
PathJoin(p, q) ==
    IF q.root # <<>>
    THEN [drive |-> IF q.drive # <<>> THEN q.drive ELSE p.drive,
          root |-> q.root, parts |-> q.parts]
    ELSE IF q.drive # <<>> /\ q.drive # p.drive THEN q
    ELSE [p EXCEPT !.parts = p.parts \o q.parts]

-----------------------------------------------------------------------------
(* Lines 57-65: osSelect and ToolchainDefaults *)

osSelect(os, linux, windows) == IF os # "nt" THEN linux ELSE windows

ToolchainDefaults(os) ==
    [CXX_COMPILER    |-> osSelect(os, <<"amdclang", "++">>, <<"clang++.exe">>),
     C_COMPILER      |-> osSelect(os, <<"amdclang">>, <<"clang.exe">>),
     OFFLOAD_BUNDLER |-> osSelect(os, <<"clang-offload-bundler">>,
                                      <<"clang-offload-bundler.exe">>),
     ASSEMBLER       |-> osSelect(os, <<"amdclang", "++">>, <<"clang++.exe">>),
     HIP_CONFIG      |-> osSelect(os, <<"hipconfig">>, <<"hipconfig">>)]

-----------------------------------------------------------------------------
(* Lines 68-118: the component classifier *)

\* a plausible slip: str.endswith instead of comparing the base filename
SupportedByEndswith(os, comp, targets) ==
    \E i \in 1..Len(targets) :
        /\ Len(comp) >= Len(targets[i])
        /\ SubSeq(comp, Len(comp) - Len(targets[i]) + 1, Len(comp)) = targets[i]

_supportedComponent(os, comp, targets) ==
    \/ \E i \in 1..Len(targets) : comp = targets[i]
    \/ \E i \in 1..Len(targets) : PathName(PathOf(os, comp)) = targets[i]

supportedCCompiler(os, compiler) ==
    _supportedComponent(os, compiler, <<ToolchainDefaults(os).C_COMPILER>>)

supportedCxxCompiler(os, compiler) ==
    _supportedComponent(os, compiler, <<ToolchainDefaults(os).CXX_COMPILER>>)

supportedOffloadBundler(os, bundler) ==
    _supportedComponent(os, bundler, <<ToolchainDefaults(os).OFFLOAD_BUNDLER>>)

supportedHip(os, smi) ==
    _supportedComponent(os, smi, <<ToolchainDefaults(os).HIP_CONFIG>>)

Roles == {"C", "CXX", "BUNDLER", "HIP"}

Canonical(os, role) ==
    CASE role = "C"       -> ToolchainDefaults(os).C_COMPILER
      [] role = "CXX"     -> ToolchainDefaults(os).CXX_COMPILER
      [] role = "BUNDLER" -> ToolchainDefaults(os).OFFLOAD_BUNDLER
      [] role = "HIP"     -> ToolchainDefaults(os).HIP_CONFIG

-----------------------------------------------------------------------------
(* Lines 31-54: module import.  On Windows the two vendor directories come  *)
(* from _windowsLatestRocmBin; a directory name is a string of characters.  *)

Digits == {"0", "1", "5", "8", "9"}

DigitVal(c) ==
    CASE c = "0" -> 0 [] c = "1" -> 1 [] c = "5" -> 5 [] c = "8" -> 8 [] c = "9" -> 9

\* int(s) for a string of digits
RECURSIVE IntOf(_)
IntOf(s) == IF s = <<>> THEN 0 ELSE 10 * IntOf(SubSeq(s, 1, Len(s) - 1)) + DigitVal(Last(s))

\* line 48/49: pattern.match(name), pattern = ^\d+\.\d+$
PatternMatch(name) ==
    \E k \in 2..(Len(name) - 1) :
        /\ name[k] = "."
        /\ \A i \in 1..Len(name) : i # k => name[i] \in Digits

\* a plausible slip: the directory names compared as strings, character by character
VersionKeyLexical(name) ==
    [i \in 1..Len(name) |-> IF name[i] \in Digits THEN DigitVal(name[i]) ELSE -1]

\* line 50: key=lambda d: tuple(map(int, d.name.split(".")))
VersionKey(name) ==
    LET fields == SplitStr(".", name, <<>>) IN [i \in 1..Len(fields) |-> IntOf(fields[i])]

\* Python's ordering of tuples of ints: a < b
RECURSIVE TupleLess(_, _)
TupleLess(a, b) ==
    IF b = <<>> THEN FALSE
    ELSE IF a = <<>> THEN TRUE
    ELSE IF Head(a) # Head(b) THEN Head(a) < Head(b)
    ELSE TupleLess(Tail(a), Tail(b))

\* line 49: filter(lambda d: d.is_dir() and pattern.match(d.name), path.iterdir())
RECURSIVE FilterVersions(_)
FilterVersions(es) ==
    IF es = <<>> THEN <<>>
    ELSE (IF Head(es).isDir /\ PatternMatch(Head(es).name) THEN <<Head(es)>> ELSE <<>>)
         \o FilterVersions(Tail(es))

\* line 50: max(versions, key=...): the first of the greatest; versions not empty
RECURSIVE MaxByKey(_, _)
MaxByKey(best, rest) ==
    IF rest = <<>> THEN best
    ELSE IF TupleLess(VersionKey(best.name), VersionKey(Head(rest).name))
         THEN MaxByKey(Head(rest), Tail(rest))
         ELSE MaxByKey(best, Tail(rest))

RocmRoot == <<"C:", "/", "Program Files", "/", "AMD", "/", "ROCm">>

\* lines 35-51: the returned Path, or the exception that leaves the function
_windowsLatestRocmBin(path, exists, listing) ==
    LET root     == PathOf("nt", path)
        versions == FilterVersions(listing)
    IN  IF ~exists
        THEN [ok |-> FALSE, val |-> root,
              err |-> [type |-> "FileNotFoundError", msg |-> path]]
        ELSE IF versions = <<>>
        THEN [ok |-> FALSE, val |-> root,
              err |-> [type |-> "ValueError", msg |-> <<"max() arg is an empty sequence">>]]
        ELSE LET latest == PathJoin(root, PathOf("nt", MaxByKey(Head(versions), Tail(versions)).name))
             IN [ok |-> TRUE, val |-> PathJoin(latest, PathOf("nt", <<"bin">>)), err |-> NoErr]

PosixRocmBin == <<"/", "opt", "/", "rocm", "/", "bin">>
PosixRocmLlvmBin == <<"/", "opt", "/", "rocm", "/", "lib", "/", "llvm", "/", "bin">>

MaxEntries == 3

EntryNames ==
    { <<"9", ".", "5">>, <<"1", "0", ".", "0">>, <<"9", ".", "8">>, <<"9", ".", "1", "0">>,
      <<"0", "9", ".", "5">>, <<"1", "0">>, <<"x">>, <<"1", ".", "5", ".", "8">>,
      <<".", "5">>, <<"9", ".">>, <<"9", ".", "x">> }

Entries == [name : EntryNames, isDir : BOOLEAN]

\* a directory listing: no name twice
Listings(n) ==
    {l \in SeqsUpTo(Entries, n) : \A i, j \in 1..Len(l) : i # j => l[i].name # l[j].name}

IdleClassify == component = <<>> /\ called = {} /\ supported = [r \in Roles |-> FALSE]
IdleResolve ==
    /\ args = <<>> /\ environPATH = <<>> /\ fs = <<>> /\ searchPaths = <<>>
    /\ argIdx = 0 /\ dirIdx = 0 /\ probes = <<>> /\ out = <<>>
IdleVersion ==
    executable = <<>> /\ versionFlag = <<>> /\ regex = <<>> /\ proc = <<>> /\ output = <<>>

InitImport ==
    /\ osName \in OsNames
    /\ pc = "import"
    /\ result = NoResult
    /\ err = NoErr
    /\ rootExists \in (IF osName = "nt" THEN BOOLEAN ELSE {FALSE})
    /\ entries \in (IF osName = "nt" /\ rootExists THEN Listings(MaxEntries) ELSE {<<>>})
    /\ ROCM_BIN_PATH = PathOf(osName, PosixRocmBin)
    /\ ROCM_LLVM_BIN_PATH = PathOf(osName, PosixRocmLlvmBin)
    /\ IdleClassify /\ IdleResolve /\ IdleVersion

\* lines 31-32 with the guard of line 34 false
ImportPosix ==
    /\ pc = "import" /\ osName # "nt"
    /\ pc' = "imported"
    /\ UNCHANGED <<osName, result, err, ROCM_BIN_PATH, ROCM_LLVM_BIN_PATH>>
    /\ UNCHANGED <<importVars, classifyVars, resolveVars, versionVars>>

\* lines 34-54 on Windows, the discovery succeeding
ImportWindows ==
    /\ pc = "import" /\ osName = "nt"
    /\ LET r == _windowsLatestRocmBin(RocmRoot, rootExists, entries) IN
        /\ r.ok
        /\ ROCM_BIN_PATH' = r.val
        /\ ROCM_LLVM_BIN_PATH' = r.val
    /\ pc' = "imported"
    /\ UNCHANGED <<osName, result, err>>
    /\ UNCHANGED <<importVars, classifyVars, resolveVars, versionVars>>

\* line 53 on Windows, the exception of line 49 or 50 leaving the import
ImportWindowsRaises ==
    /\ pc = "import" /\ osName = "nt"
    /\ LET r == _windowsLatestRocmBin(RocmRoot, rootExists, entries) IN
        /\ ~r.ok
        /\ err' = r.err
    /\ pc' = "raised"
    /\ UNCHANGED <<osName, result, ROCM_BIN_PATH, ROCM_LLVM_BIN_PATH>>
    /\ UNCHANGED <<importVars, classifyVars, resolveVars, versionVars>>

NextImport == ImportPosix \/ ImportWindows \/ ImportWindowsRaises

SpecImport == InitImport /\ [][NextImport]_vars

(* C9: on Windows a successful discovery returns <root>/<name>/bin for an   *)
(* entry that is a directory named MAJOR.MINOR and whose (major, minor) is  *)
(* numerically greatest among such entries; 10.0 outranks 9.8 and 9.5.      *)
DotPos(name) == CHOOSE k \in 1..Len(name) : name[k] = "."
Major(name) == IntOf(SubSeq(name, 1, DotPos(name) - 1))
Minor(name) == IntOf(SubSeq(name, DotPos(name) + 1, Len(name)))
NumericLeq(a, b) ==
    Major(a) < Major(b) \/ (Major(a) = Major(b) /\ Minor(a) <= Minor(b))
IsVersionDir(e) == e.isDir /\ PatternMatch(e.name)
BinUnder(name) ==
    [drive |-> <<"C:">>, root |-> <<"\\">>,
     parts |-> << <<"Program Files">>, <<"AMD">>, <<"ROCm">>, name, <<"bin">> >>]

Thm_C9_LatestIsNumericMax ==
    (pc = "imported" /\ osName = "nt") =>
        \E i \in 1..Len(entries) :
            /\ IsVersionDir(entries[i])
            /\ ROCM_BIN_PATH = BinUnder(entries[i].name)
            /\ ROCM_LLVM_BIN_PATH = BinUnder(entries[i].name)
            /\ \A j \in 1..Len(entries) :
                  IsVersionDir(entries[j]) => NumericLeq(entries[j].name, entries[i].name)

Wit_C9_TenOutranksNine ==
    /\ pc = "imported" /\ osName = "nt"
    /\ entries = << [name |-> <<"9", ".", "5">>, isDir |-> TRUE],
                    [name |-> <<"1", "0", ".", "0">>, isDir |-> TRUE],
                    [name |-> <<"9", ".", "8">>, isDir |-> TRUE] >>
    /\ ROCM_BIN_PATH = BinUnder(<<"1", "0", ".", "0">>)

(* C8: on Windows, when the ROCm root has no subdirectory named MAJOR.MINOR, *)
(* the discovery fails with a DiscoveryError of its own.                     *)
Orig_C8_DiscoveryError ==
    (osName = "nt" /\ rootExists /\ pc # "import"
        /\ ~ \E i \in 1..Len(entries) : IsVersionDir(entries[i]))
    => (pc = "raised" /\ err.type = "DiscoveryError")

-----------------------------------------------------------------------------
(* SpecClassify: one call of each predicate on a name *)

MaxNameLen == 3

NameTokens(os) ==
    IF os = "nt"
    THEN {"clang.exe", "clang++.exe", "clang-offload-bundler.exe", "hipconfig",
          "\\", "/", ".", "C:", "-17", "CLANG.EXE"}
    ELSE {"amdclang", "++", "clang-offload-bundler", "hipconfig",
          "/", ".", "-17", "AMDCLANG"}

Names(os) ==
    {s \in SeqsUpTo(NameTokens(os), MaxNameLen) : os = "nt" => LeadingSeps(os, s) < 2}

InitClassify ==
    /\ osName \in OsNames
    /\ pc = "idle"
    /\ result = NoResult
    /\ err = NoErr
    /\ rootExists = FALSE /\ entries = <<>>
    /\ ROCM_BIN_PATH = PathOf(osName, PosixRocmBin)
    /\ ROCM_LLVM_BIN_PATH = PathOf(osName, PosixRocmLlvmBin)
    /\ component \in Names(osName)
    /\ called = {}
    /\ supported = [r \in Roles |-> FALSE]
    /\ IdleResolve /\ IdleVersion

Call(role, value) ==
    /\ role \notin called
    /\ called' = called \cup {role}
    /\ supported' = [supported EXCEPT ![role] = value]
    /\ UNCHANGED <<osName, pc, result, err, ROCM_BIN_PATH, ROCM_LLVM_BIN_PATH, component>>
    /\ UNCHANGED <<importVars, resolveVars, versionVars>>

CallSupportedCCompiler == Call("C", supportedCCompiler(osName, component))
CallSupportedCxxCompiler == Call("CXX", supportedCxxCompiler(osName, component))
CallSupportedOffloadBundler == Call("BUNDLER", supportedOffloadBundler(osName, component))
CallSupportedHip == Call("HIP", supportedHip(osName, component))

NextClassify ==
    \/ CallSupportedCCompiler
    \/ CallSupportedCxxCompiler
    \/ CallSupportedOffloadBundler
    \/ CallSupportedHip

SpecClassify == InitClassify /\ [][NextClassify]_vars

(* C2: a role's predicate is true exactly when the name is the role's       *)
(* canonical name or its final path segment is; the canonical name followed *)
(* by a version suffix or any other suffix, or in another letter case, is   *)
(* rejected.  The final segment is read off the string: it starts the name  *)
(* or follows a separator (or the drive), and only separators and "."       *)
(* segments follow it.                                                      *)
IsSepAt(s, k) == k \in 1..Len(s) /\ s[k] \in Seps(osName)
IsDotSegmentAt(s, k) ==
    s[k] = "." /\ IsSepAt(s, k - 1) /\ (k = Len(s) \/ IsSepAt(s, k + 1))
FinalSegmentIs(s, c) ==
    \E i \in 1..Len(s) :
        LET j == i + Len(c) - 1 IN
        /\ j <= Len(s)
        /\ SubSeq(s, i, j) = c
        /\ i = 1 \/ IsSepAt(s, i - 1) \/ (i = 2 /\ DriveOf(osName, s) # <<>>)
        /\ \A k \in (j + 1)..Len(s) : IsSepAt(s, k) \/ IsDotSegmentAt(s, k)
UpperCase(t) ==
    CASE t = "amdclang" -> "AMDCLANG" [] t = "clang.exe" -> "CLANG.EXE" [] OTHER -> t
HasSuffixAfter(s, c) ==
    /\ Len(s) > Len(c)
    /\ SubSeq(s, 1, Len(c)) = c
    /\ \A k \in (Len(c) + 1)..Len(s) : ~IsSepAt(s, k)

Thm_C2_Classifier ==
    \A r \in called :
        LET c == Canonical(osName, r) IN
        /\ supported[r] <=> (component = c \/ FinalSegmentIs(component, c))
        /\ HasSuffixAfter(component, c) => ~supported[r]
        /\ (component = [i \in 1..Len(c) |-> UpperCase(c[i])] /\ component # c) => ~supported[r]

Wit_C2_BaseNameAccepted ==
    /\ osName = "posix" /\ called = Roles
    /\ component = <<"/", "amdclang", "++">>
    /\ supported["CXX"] /\ ~supported["C"]

-----------------------------------------------------------------------------
(* Lines 121-177: _exeExists, _validateExecutable, validateToolchain *)

\* os.access(path, os.X_OK): granted for a regular file with execute permission
\* and for a directory with search permission; fs maps the paths that exist
KindOf(f, path) == IF path \in DOMAIN f THEN f[path] ELSE "absent"

\* line 130
_exeExists(f, file) == KindOf(f, file) \in {"xfile", "xdir"}

\* a plausible slip: strings starting with a target taken as supported
AnySupportedByPrefix(os, file) ==
    \E r \in Roles :
        /\ Len(file) >= Len(Canonical(os, r))
        /\ SubSeq(file, 1, Len(Canonical(os, r))) = Canonical(os, r)

\* lines 143-145: any((supportedCxxCompiler(file), ...))
anySupported(os, file) ==
    \/ supportedCxxCompiler(os, file)
    \/ supportedCCompiler(os, file)
    \/ supportedOffloadBundler(os, file)
    \/ supportedHip(os, file)

\* a plausible slip: the PATH entries searched before the vendor directories
SearchPathListPathFirst(os, rocm, llvm, path) ==
    LET ps == SplitStr(PathSep(os), path, <<>>) IN
    [i \in 1..Len(ps) |-> PathOf(os, ps[i])] \o <<rocm, llvm>>

\* lines 171-174
SearchPathList(os, rocm, llvm, path) ==
    LET ps == SplitStr(PathSep(os), path, <<>>) IN
    <<rocm, llvm>> \o [i \in 1..Len(ps) |-> PathOf(os, ps[i])]

\* a plausible slip: the division of line 150 done in place on the list element
SearchPathsDividedInPlace(os, sp, j, file) ==
    [sp EXCEPT ![j] = PathJoin(sp[j], PathOf(os, file))]

\* line 150: `path /= file` rebinds the loop variable; the list is as it was
SearchPathsAfterDivide(os, sp, j, file) == sp

\* line 146
UnsupportedError(os, file) ==
    [type |-> "ValueError",
     msg  |-> file \o <<" is not a supported toolchain component for OS: ", os>>]

\* line 152
NotFoundError(os, file, sp) ==
    [type |-> "FileNotFoundError",
     msg  |-> <<"<backquote>">> \o file
              \o <<"<backquote> either not found or not executable in any search path: ">>
              \o JoinStr(<<":">>, [i \in 1..Len(sp) |-> PathStr(os, sp[i])])]

\* line 169
NoArgsError ==
    [type |-> "ValueError",
     msg  |-> <<"No toolchain components to validate, at least one argument is required">>]

MaxArgs == 2

ArgPool(os) ==
    IF os = "nt"
    THEN { <<"clang++.exe">>, <<"C:", "\\", "t", "\\", "hipconfig">>, <<"clang.exe", "-17">> }
    ELSE { <<"amdclang", "++">>, <<".", "/", "hipconfig">>, <<"amdclang", "++", "-17">> }

\* os.environ["PATH"]
PathPool(os) ==
    IF os = "nt"
    THEN { <<"C:", "\\", "a", ";", "C:", "\\", "b">>, <<"C:", "\\", "b", ";", "C:", "\\", "a">> }
    ELSE { <<"/", "usr", "/", "bin", ":", "/", "bin">>, <<"/", "bin", ":", "/", "usr", "/", "bin">>,
           <<"/", "bin", ":">> }

ShortPath(os) == IF os = "nt" THEN <<"C:", "\\", "a">> ELSE <<"/", "bin">>

\* the installed ROCm versions of the Windows hosts of the model
InstalledRocm ==
    << [name |-> <<"9", ".", "8">>, isDir |-> TRUE], [name |-> <<"1", "0", ".", "0">>, isDir |-> TRUE] >>

VendorBin(os) ==
    IF os = "nt" THEN _windowsLatestRocmBin(RocmRoot, TRUE, InstalledRocm).val
    ELSE PathOf(os, PosixRocmBin)
VendorLlvmBin(os) ==
    IF os = "nt" THEN _windowsLatestRocmBin(RocmRoot, TRUE, InstalledRocm).val
    ELSE PathOf(os, PosixRocmLlvmBin)

\* the paths a resolution of the names can probe
Cells(os, names, path) ==
    LET sp == SearchPathList(os, VendorBin(os), VendorLlvmBin(os), path) IN
    UNION { {PathOf(os, n)} \cup {PathJoin(sp[k], PathOf(os, n)) : k \in 1..Len(sp)} : n \in names }

\* the filesystems over the cells: each cell absent or of one of the kinds
FileSystems(cells, kinds) ==
    UNION { [present -> kinds] : present \in SUBSET cells }

\* os.access(X_OK) on Windows only tests that the path exists
FileKinds(os) == IF os = "nt" THEN {"xfile", "xdir"} ELSE {"xfile", "xdir", "file"}

Range(s) == {s[i] : i \in 1..Len(s)}

\* one name (or none) over every filesystem; several names over the filesystems of
\* executable files, with a one-entry PATH
InitResolve ==
    /\ osName \in OsNames
    /\ pc = "call"
    /\ result = NoResult
    /\ err = NoErr
    /\ rootExists = (osName = "nt")
    /\ entries = IF osName = "nt" THEN InstalledRocm ELSE <<>>
    /\ ROCM_BIN_PATH = VendorBin(osName)
    /\ ROCM_LLVM_BIN_PATH = VendorLlvmBin(osName)
    /\ IdleClassify /\ IdleVersion
    /\ \/ /\ args \in SeqsUpTo(ArgPool(osName), 1)
          /\ environPATH \in PathPool(osName)
          /\ fs \in FileSystems(Cells(osName, Range(args), environPATH), FileKinds(osName))
       \/ /\ args \in SeqsUpTo(ArgPool(osName), MaxArgs) /\ Len(args) >= 2
          /\ environPATH = ShortPath(osName)
          /\ fs \in FileSystems(Cells(osName, Range(args), environPATH), {"xfile"})
    /\ searchPaths = <<>> /\ argIdx = 0 /\ dirIdx = 0 /\ probes = <<>> /\ out = <<>>

ResolveFrame ==
    /\ UNCHANGED <<osName, ROCM_BIN_PATH, ROCM_LLVM_BIN_PATH, args, environPATH, fs>>
    /\ UNCHANGED <<importVars, classifyVars, versionVars>>

\* lines 168-169
ValidateToolchainNoArgs ==
    /\ pc = "call" /\ args = <<>>
    /\ err' = NoArgsError
    /\ pc' = "raised"
    /\ UNCHANGED <<result, searchPaths, argIdx, dirIdx, probes, out>>
    /\ ResolveFrame

\* lines 168-176: the search list and the generator over args
ValidateToolchainEnter ==
    /\ pc = "call" /\ args # <<>>
    /\ searchPaths' = SearchPathList(osName, ROCM_BIN_PATH, ROCM_LLVM_BIN_PATH, environPATH)
    /\ argIdx' = 1
    /\ pc' = "classify"
    /\ UNCHANGED <<result, err, dirIdx, probes, out>>
    /\ ResolveFrame

\* lines 143-146, the name not supported
ClassifyUnsupported ==
    /\ pc = "classify"
    /\ ~anySupported(osName, args[argIdx])
    /\ err' = UnsupportedError(osName, args[argIdx])
    /\ pc' = "raised"
    /\ UNCHANGED <<result, searchPaths, argIdx, dirIdx, probes, out>>
    /\ ResolveFrame

\* lines 143-145, the name supported
ClassifySupported ==
    /\ pc = "classify"
    /\ anySupported(osName, args[argIdx])
    /\ pc' = "probeSelf"
    /\ UNCHANGED <<result, err, searchPaths, argIdx, dirIdx, probes, out>>
    /\ ResolveFrame

\* the generator yields a value: on to the next name, or to the return of line 177
Yield(value) ==
    /\ out' = Append(out, value)
    /\ argIdx' = argIdx + 1
    /\ pc' = IF argIdx = Len(args) THEN "return" ELSE "classify"

\* line 148
ProbeSelf ==
    /\ pc = "probeSelf"
    /\ LET file == args[argIdx]
           path == PathOf(osName, file)
       IN /\ probes' = Append(probes, [arg |-> argIdx, path |-> path])
          /\ IF _exeExists(fs, path)
             THEN Yield(file) /\ UNCHANGED dirIdx
             ELSE pc' = "probeDir" /\ dirIdx' = 1 /\ UNCHANGED <<argIdx, out>>
    /\ UNCHANGED <<result, err, searchPaths>>
    /\ ResolveFrame

\* lines 149-151, one iteration
ProbeDir ==
    /\ pc = "probeDir" /\ dirIdx <= Len(searchPaths)
    /\ LET file == args[argIdx]
           path == PathJoin(searchPaths[dirIdx], PathOf(osName, file))
       IN /\ searchPaths' = SearchPathsAfterDivide(osName, searchPaths, dirIdx, file)
          /\ probes' = Append(probes, [arg |-> argIdx, path |-> path])
          /\ IF _exeExists(fs, path)
             THEN Yield(PathStr(osName, path)) /\ UNCHANGED dirIdx
             ELSE dirIdx' = dirIdx + 1 /\ UNCHANGED <<pc, argIdx, out>>
    /\ UNCHANGED <<result, err>>
    /\ ResolveFrame

\* line 152
RaiseNotFound ==
    /\ pc = "probeDir" /\ dirIdx > Len(searchPaths)
    /\ err' = NotFoundError(osName, args[argIdx], searchPaths)
    /\ pc' = "raised"
    /\ UNCHANGED <<result, searchPaths, argIdx, dirIdx, probes, out>>
    /\ ResolveFrame

\* line 177
ValidateToolchainReturn ==
    /\ pc = "return"
    /\ result' = IF Len(args) = 1 THEN [kind |-> "str", val |-> out[1]]
                 ELSE [kind |-> "tuple", val |-> out]
    /\ pc' = "returned"
    /\ UNCHANGED <<err, searchPaths, argIdx, dirIdx, probes, out>>
    /\ ResolveFrame

NextResolve ==
    \/ ValidateToolchainNoArgs
    \/ ValidateToolchainEnter
    \/ ClassifyUnsupported
    \/ ClassifySupported
    \/ ProbeSelf
    \/ ProbeDir
    \/ RaiseNotFound
    \/ ValidateToolchainReturn

SpecResolve == InitResolve /\ [][NextResolve]_vars

-----------------------------------------------------------------------------
(* What a resolution of one name is to yield, read off the filesystem, the  *)
(* PATH and the vendor directories of the state.                            *)

Contains(str, sub) ==
    \E i \in 1..(Len(str) - Len(sub) + 1) : SubSeq(str, i, i + Len(sub) - 1) = sub

Min(S) == CHOOSE m \in S : \A x \in S : m <= x

IsSupportedName(name) ==
    \E r \in Roles : name = Canonical(osName, r) \/ FinalSegmentIs(name, Canonical(osName, r))

\* passes the execute-access test
XOK(path) == KindOf(fs, path) \in {"xfile", "xdir"}

\* vendor primary dir, vendor llvm dir, then the PATH entries in their order
OrderedDirs ==
    LET ps == SplitStr(PathSep(osName), environPATH, <<>>) IN
    [k \in 1..(Len(ps) + 2) |->
        IF k = 1 THEN ROCM_BIN_PATH
        ELSE IF k = 2 THEN ROCM_LLVM_BIN_PATH
        ELSE PathOf(osName, ps[k - 2])]

Candidate(k, name) == PathJoin(OrderedDirs[k], PathOf(osName, name))

Hits(name) == {k \in 1..Len(OrderedDirs) : XOK(Candidate(k, name))}

Resolution(name) ==
    IF ~IsSupportedName(name) THEN [outcome |-> "unsupported", val |-> <<>>]
    ELSE IF XOK(PathOf(osName, name)) THEN [outcome |-> "found", val |-> name]
    ELSE IF Hits(name) # {}
         THEN [outcome |-> "found", val |-> PathStr(osName, Candidate(Min(Hits(name)), name))]
         ELSE [outcome |-> "notfound", val |-> <<>>]

Finished == pc \in {"returned", "raised"}

Thm_C3_UnsupportedFailsBeforeProbe ==
    /\ \A k \in 1..Len(probes) : IsSupportedName(args[probes[k].arg])
    /\ \A i \in 1..Len(out) : IsSupportedName(args[i])
    /\ (argIdx \in 1..Len(args) /\ ~IsSupportedName(args[argIdx])) =>
          /\ pc \in {"classify", "raised"}
          /\ pc = "raised" =>
                /\ err.type = "ValueError"
                /\ Contains(err.msg, args[argIdx])
                /\ Contains(err.msg, <<" is not a supported toolchain component for OS: ", osName>>)

Wit_C3_ExecutableButUnsupported ==
    /\ pc = "raised" /\ Len(args) = 1
    /\ ~IsSupportedName(args[1])
    /\ KindOf(fs, PathOf(osName, args[1])) = "xfile"
    /\ KindOf(fs, Candidate(1, args[1])) = "xfile"
    /\ probes = <<>>

(* C4: every path validateToolchain yields is a regular file with execute   *)
(* permission; a directory with the search bit set is never yielded.        *)
Returned ==
    IF pc # "returned" THEN {}
    ELSE IF result.kind = "str" THEN {result.val}
    ELSE {result.val[i] : i \in 1..Len(result.val)}

Orig_C4_OnlyExecutableFiles ==
    \A p \in Returned : KindOf(fs, PathOf(osName, p)) = "xfile"

(* C5: the not-found error names the component and contains the searched    *)
(* directories, in order, joined by the platform's path-list separator.     *)
Orig_C5_NotFoundMessage ==
    (pc = "raised" /\ err.type = "FileNotFoundError") =>
        /\ Contains(err.msg, args[argIdx])
        /\ Contains(err.msg,
             JoinStr(<<PathSep(osName)>>,
                     [k \in 1..Len(OrderedDirs) |-> PathStr(osName, OrderedDirs[k])]))

(* C10: a call on n >= 2 names returns n values, the i-th what the i-th     *)
(* name alone resolves to; it fails with the error of the first name that   *)
(* fails; the search list is the same for every name; one name returns the  *)
(* bare path.                                                               *)
FirstFailure == Min({i \in 1..Len(args) : Resolution(args[i]).outcome # "found"})

-----------------------------------------------------------------------------
(* Lines 180-193: getVersion.  The regular expressions of the model are     *)
(* sequences of atoms, each a character class with a quantifier, with one   *)
(* capture group over atoms gs..ge.  Text is a sequence of tokens; the word *)
(* "version" is one token, in either letter case.                           *)

Whitespace == {" "}

\* whether the token is in the class, under re.IGNORECASE (line 190)
ClassMatch(cls, tok) ==
    CASE cls = "version"  -> tok \in {"version", "VERSION"}
      [] cls = "space"    -> tok \in Whitespace
      [] cls = "digitdot" -> tok \in {"7", "."}

\* the length of the run of class tokens of s from pos on
RECURSIVE RunLen(_, _, _)
RunLen(cls, s, pos) ==
    IF pos <= Len(s) /\ ClassMatch(cls, s[pos]) THEN 1 + RunLen(cls, s, pos + 1) ELSE 0

MinCount(rep) == IF rep = "star" THEN 0 ELSE 1
MaxCount(rep, run) == IF rep = "one" /\ run > 1 THEN 1 ELSE run

\* the backtracking matcher: atoms k.. of the pattern on s from pos, atom k
\* taking n tokens or, failing that, fewer; [ok, b], b the start of each atom
\* and the end of the match
RECURSIVE MatchAtoms(_, _, _, _)
RECURSIVE TryCount(_, _, _, _, _)
MatchAtoms(atoms, k, s, pos) ==
    IF k > Len(atoms) THEN [ok |-> TRUE, b |-> <<pos>>]
    ELSE TryCount(atoms, k, s, pos, MaxCount(atoms[k].rep, RunLen(atoms[k].cls, s, pos)))
TryCount(atoms, k, s, pos, n) ==
    IF n < MinCount(atoms[k].rep) THEN [ok |-> FALSE, b |-> <<>>]
    ELSE LET rest == MatchAtoms(atoms, k + 1, s, pos + n) IN
         IF rest.ok THEN [ok |-> TRUE, b |-> <<pos>> \o rest.b]
         ELSE TryCount(atoms, k, s, pos, n - 1)

\* re.search(regex, s, re.IGNORECASE): the match at the leftmost start
RECURSIVE SearchFrom(_, _, _)
SearchFrom(pat, s, start) ==
    IF start > Len(s) + 1 THEN [ok |-> FALSE, b |-> <<>>]
    ELSE LET m == MatchAtoms(pat.atoms, 1, s, start) IN
         IF m.ok THEN m ELSE SearchFrom(pat, s, start + 1)

\* match.group(1)
Group1(pat, s, m) == SubSeq(s, m.b[pat.gs], m.b[pat.ge + 1] - 1)

\* a plausible slip: only the trailing newline removed (rstrip)
RECURSIVE StripRightOnly(_)
StripRightOnly(s) ==
    IF s # <<>> /\ Last(s) \in Whitespace THEN StripRightOnly(SubSeq(s, 1, Len(s) - 1)) ELSE s

\* str.strip()
RECURSIVE Strip(_)
Strip(s) ==
    IF s # <<>> /\ Head(s) \in Whitespace THEN Strip(Tail(s))
    ELSE IF s # <<>> /\ Last(s) \in Whitespace THEN Strip(SubSeq(s, 1, Len(s) - 1))
    ELSE s

Unknown == <<"<unknown>">>

\* line 187
CommandLine(exe, flag) == <<"\"">> \o exe \o <<"\" \"">> \o flag \o <<"\"">>

\* line 193
VersionError(exe, flag, cause) ==
    [type |-> "RuntimeError",
     msg  |-> <<"Failed to get version when calling ">> \o CommandLine(exe, flag)
              \o <<": ", cause>>]

\* line 189: the standard output run() captures.  With shell=True the child of
\* run() is the shell: a command it cannot find makes it exit with status 127
\* and an empty standard output, and run() raises nothing.
CapturedStdout(p) == IF p.exeFound THEN p.stdout ELSE <<>>

MaxOutLen == 4

OutTokens == {"version", "VERSION", " ", "7", "."}

Atom(cls, rep) == [cls |-> cls, rep |-> rep]

\* the default of line 180: version\s+([\d.]+)
DefaultRegex ==
    [atoms |-> <<Atom("version", "one"), Atom("space", "plus"), Atom("digitdot", "plus")>>,
     gs |-> 3, ge |-> 3]

Regexes ==
    { DefaultRegex,
      \* version(\s+[\d.]+)
      [atoms |-> <<Atom("version", "one"), Atom("space", "plus"), Atom("digitdot", "plus")>>,
       gs |-> 2, ge |-> 3],
      \* ([\d.]+\s*)
      [atoms |-> <<Atom("digitdot", "plus"), Atom("space", "star")>>, gs |-> 1, ge |-> 2],
      \* \s+(version)
      [atoms |-> <<Atom("space", "plus"), Atom("version", "one")>>, gs |-> 2, ge |-> 2] }

\* what the shell and the child do: the shell cannot be started; the shell
\* does not find the executable; the executable runs and writes stdout, which
\* decodes or not
Procs ==
    { [shell |-> FALSE, exeFound |-> FALSE, stdout |-> <<>>, decodable |-> TRUE],
      [shell |-> TRUE, exeFound |-> FALSE, stdout |-> <<>>, decodable |-> TRUE] }
    \cup [shell : {TRUE}, exeFound : {TRUE}, stdout : SeqsUpTo(OutTokens, MaxOutLen),
          decodable : BOOLEAN]

InitVersion ==
    /\ osName = "posix"
    /\ pc = "call"
    /\ result = NoResult
    /\ err = NoErr
    /\ rootExists = FALSE /\ entries = <<>>
    /\ ROCM_BIN_PATH = PathOf(osName, PosixRocmBin)
    /\ ROCM_LLVM_BIN_PATH = PathOf(osName, PosixRocmLlvmBin)
    /\ IdleClassify /\ IdleResolve
    /\ executable = PosixRocmBin \o <<"/", "amdclang", "++">>
    /\ versionFlag \in {<<"--version">>, <<"-v">>}
    /\ regex \in Regexes
    /\ proc \in Procs
    /\ output = <<>>

VersionFrame ==
    /\ UNCHANGED <<osName, ROCM_BIN_PATH, ROCM_LLVM_BIN_PATH, executable, versionFlag, regex, proc>>
    /\ UNCHANGED <<importVars, classifyVars, resolveVars>>

\* line 189: run(...).stdout.decode().strip()
GetVersionRun ==
    /\ pc = "call"
    /\ proc.shell /\ proc.decodable
    /\ output' = Strip(CapturedStdout(proc))
    /\ pc' = "search"
    /\ UNCHANGED <<result, err>>
    /\ VersionFrame

\* lines 189, 192-193: run() or decode() raises
GetVersionRunRaises ==
    /\ pc = "call"
    /\ ~(proc.shell /\ proc.decodable)
    /\ err' = VersionError(executable, versionFlag,
                           IF ~proc.shell THEN "OSError" ELSE "UnicodeDecodeError")
    /\ pc' = "raised"
    /\ UNCHANGED <<result, output>>
    /\ VersionFrame

\* lines 190-191
GetVersionSearch ==
    /\ pc = "search"
    /\ LET match == SearchFrom(regex, output, 1) IN
       result' = [kind |-> "str",
                  val |-> IF match.ok THEN Group1(regex, output, match) ELSE Unknown]
    /\ pc' = "returned"
    /\ UNCHANGED <<err, output>>
    /\ VersionFrame

NextVersion == GetVersionRun \/ GetVersionRunRaises \/ GetVersionSearch

SpecVersion == InitVersion /\ [][NextVersion]_vars

(* The regular expression's meaning, stated on the text: a match is a start *)
(* and a cut of the text into one chunk per atom, each chunk of the atom's  *)
(* class and of a length its quantifier admits.                             *)
InClass(cls, tok) ==
    \/ cls = "version" /\ (tok = "version" \/ tok = "VERSION")
    \/ cls = "space" /\ tok = " "
    \/ cls = "digitdot" /\ (tok = "7" \/ tok = ".")

ChunkOK(atom, chunk) ==
    /\ \A i \in 1..Len(chunk) : InClass(atom.cls, chunk[i])
    /\ atom.rep = "one" => Len(chunk) = 1
    /\ atom.rep = "plus" => Len(chunk) >= 1

RECURSIVE Cuts(_, _, _, _)
Cuts(atoms, k, s, pos) ==
    IF k > Len(atoms) THEN {<<pos>>}
    ELSE UNION { {<<pos>> \o t : t \in Cuts(atoms, k + 1, s, e)} :
                 e \in {e \in pos..(Len(s) + 1) : ChunkOK(atoms[k], SubSeq(s, pos, e - 1))} }

MatchStarts(pat, s) == {i \in 1..(Len(s) + 1) : Cuts(pat.atoms, 1, s, i) # {}}

\* greedy quantifiers: of two cuts from one start, the one whose first differing
\* atom is longer is preferred
Preferred(b, c) ==
    \E k \in 1..Len(b) : b[k] > c[k] /\ \A j \in 1..(k - 1) : b[j] = c[j]

FirstMatch(pat, s) ==
    LET cs == Cuts(pat.atoms, 1, s, Min(MatchStarts(pat, s))) IN
    CHOOSE b \in cs : \A c \in cs : c # b => Preferred(b, c)

IsTrimmed(s) == s = <<>> \/ (Head(s) \notin Whitespace /\ Last(s) \notin Whitespace)

RECURSIVE Trimmed(_)
Trimmed(s) ==
    IF s = <<>> \/ IsTrimmed(s) THEN s
    ELSE IF Head(s) \in Whitespace THEN Trimmed(Tail(s))
    ELSE Trimmed(SubSeq(s, 1, Len(s) - 1))

InvocationFailed == ~proc.shell \/ ~proc.exeFound \/ ~proc.decodable

Orig_C6_FailedInvocationRaises ==
    (Finished /\ InvocationFailed) =>
        /\ pc = "raised"
        /\ err.type = "RuntimeError"
        /\ Contains(err.msg, executable)
        /\ Contains(err.msg, versionFlag)

====
